---------------------------- MODULE Spec2Model ----------------------------
(***************************************************************************)
(* PhoneValue back-end quote engine: POST /api/get-quote.                  *)
(*                                                                         *)
(* Two versions of the server are modelled side by side:                   *)
(*   "v1"  src/unnamed/part_000  (request carries a condition record)      *)
(*   "v2"  src/server.js         (request carries a grade label)           *)
(*                                                                         *)
(* JavaScript numbers are IEEE-754 doubles.  They are modelled bit-exactly *)
(* (53-bit significand, round-to-nearest-even) on top of a small           *)
(* arbitrary-precision natural-number layer, because several properties    *)
(* of the offer arithmetic depend on rounding.                             *)
(***************************************************************************)
EXTENDS Integers, Sequences, FiniteSets, TLC

(***************************************************************************)
(* Arbitrary-precision naturals: little-endian sequences of limbs in       *)
(* 0..LimbBase-1 without high zero limbs; <<>> is zero.  This is the       *)
(* carrier of the significand of a JavaScript number.                      *)
(***************************************************************************)
LimbBits == 14

LimbBase == 2^LimbBits

Limb(x, i) == IF i <= Len(x) THEN x[i] ELSE 0

RECURSIVE BStrip(_)
BStrip(x) ==
    IF x = <<>> THEN <<>>
    ELSE IF x[Len(x)] = 0 THEN BStrip(SubSeq(x, 1, Len(x) - 1))
    ELSE x

RECURSIVE BFromInt(_)
BFromInt(n) ==
    IF n = 0 THEN <<>> ELSE <<n % LimbBase>> \o BFromInt(n \div LimbBase)

RECURSIVE BToInt(_)
BToInt(x) ==
    IF x = <<>> THEN 0 ELSE x[1] + LimbBase * BToInt(Tail(x))

RECURSIVE BAddR(_, _, _, _)
BAddR(x, y, i, c) ==
    IF i > Len(x) /\ i > Len(y)
    THEN (IF c = 0 THEN <<>> ELSE <<c>>)
    ELSE LET t == Limb(x, i) + Limb(y, i) + c
         IN  <<t % LimbBase>> \o BAddR(x, y, i + 1, t \div LimbBase)

BAdd(x, y) == BAddR(x, y, 1, 0)

\* x - y for x >= y
RECURSIVE BSubR(_, _, _, _)
BSubR(x, y, i, b) ==
    IF i > Len(x) THEN <<>>
    ELSE LET t == x[i] - Limb(y, i) - b
         IN  IF t < 0 THEN <<t + LimbBase>> \o BSubR(x, y, i + 1, 1)
             ELSE <<t>> \o BSubR(x, y, i + 1, 0)

BSub(x, y) == BStrip(BSubR(x, y, 1, 0))

\* -1, 0, 1 as x <, =, > y
RECURSIVE BCmpR(_, _, _)
BCmpR(x, y, i) ==
    IF i = 0 THEN 0
    ELSE IF x[i] < y[i] THEN -1
    ELSE IF x[i] > y[i] THEN 1
    ELSE BCmpR(x, y, i - 1)

BCmp(x, y) ==
    IF Len(x) < Len(y) THEN -1
    ELSE IF Len(x) > Len(y) THEN 1
    ELSE BCmpR(x, y, Len(x))

\* x * k for 0 <= k < LimbBase
RECURSIVE BMulSmallR(_, _, _, _)
BMulSmallR(x, k, i, c) ==
    IF i > Len(x)
    THEN (IF c = 0 THEN <<>> ELSE <<c>>)
    ELSE LET t == x[i] * k + c
         IN  <<t % LimbBase>> \o BMulSmallR(x, k, i + 1, t \div LimbBase)

BMulSmall(x, k) == IF k = 0 THEN <<>> ELSE BMulSmallR(x, k, 1, 0)

ZeroLimbs(n) == [i \in 1..n |-> 0]

RECURSIVE BMulR(_, _, _)
BMulR(x, y, j) ==
    IF j > Len(y) THEN <<>>
    ELSE LET p == BMulSmall(x, y[j])
             s == IF p = <<>> THEN <<>> ELSE ZeroLimbs(j - 1) \o p
         IN  BAdd(s, BMulR(x, y, j + 1))

BMul(x, y) == IF x = <<>> \/ y = <<>> THEN <<>> ELSE BMulR(x, y, 1)

\* <<quotient, remainder>> of x by d, 0 < d < LimbBase
RECURSIVE BDivSmallR(_, _, _, _)
BDivSmallR(x, d, i, r) ==
    IF i = 0 THEN <<<<>>, r>>
    ELSE LET t    == r * LimbBase + x[i]
             rest == BDivSmallR(x, d, i - 1, t % d)
         IN  <<rest[1] \o <<t \div d>>, rest[2]>>

BDivSmall(x, d) ==
    LET qr == BDivSmallR(x, d, Len(x), 0)
    IN  <<BStrip(qr[1]), qr[2]>>

\* x * 2^n
BShl(x, n) ==
    IF x = <<>> THEN <<>>
    ELSE ZeroLimbs(n \div LimbBits) \o BMulSmall(x, 2^(n % LimbBits))

\* floor(x / 2^n)
BShr(x, n) ==
    LET k == n \div LimbBits
    IN  IF k >= Len(x) THEN <<>>
        ELSE BDivSmall(SubSeq(x, k + 1, Len(x)), 2^(n % LimbBits))[1]

\* bit i of x (bit 0 is the least significant)
BBit(x, i) == (Limb(x, i \div LimbBits + 1) \div 2^(i % LimbBits)) % 2

\* x mod 2^n # 0
BLowNonZero(x, n) ==
    \/ \E i \in 1..(n \div LimbBits) : Limb(x, i) # 0
    \/ Limb(x, n \div LimbBits + 1) % 2^(n % LimbBits) # 0

\* number of significant bits of x
BLen(x) ==
    IF x = <<>> THEN 0
    ELSE (Len(x) - 1) * LimbBits
         + (CHOOSE n \in 1..LimbBits : 2^(n - 1) <= x[Len(x)] /\ x[Len(x)] < 2^n)

(***************************************************************************)
(* JavaScript numbers.  A finite number is (-1)^s * m * 2^e with m either  *)
(* zero (then s = 0, e = 0) or a 53-bit significand; the only other value  *)
(* the program can produce is NaN (from parseFloat).  -0 is identified     *)
(* with 0: the program only compares, rounds and serialises its numbers,   *)
(* and none of these distinguishes the two.  Exponent overflow and         *)
(* subnormals are out of range for the amounts handled here.               *)
(***************************************************************************)
SigBits == 53

NaN == [k |-> "nan", s |-> 0, m |-> <<>>, e |-> 0]

Zero == [k |-> "num", s |-> 0, m |-> <<>>, e |-> 0]

isNaN(x) == x.k = "nan"

IsZero(x) == x.k = "num" /\ x.m = <<>>

\* The number nearest to (-1)^s * (M + f) * 2^e, where M is a positive
\* natural and 0 <= f < 1 with f > 0 iff sticky; ties go to the even
\* significand.  sticky is only passed with BLen(M) > SigBits + 1.
RoundToDouble(s, M, e, sticky) ==
    LET L == BLen(M)
    IN  IF L <= SigBits
        THEN [k |-> "num", s |-> s, m |-> BShl(M, SigBits - L), e |-> e - (SigBits - L)]
        ELSE LET sh    == L - SigBits
                 q     == BShr(M, sh)
                 guard == BBit(M, sh - 1) = 1
                 rest  == sticky \/ BLowNonZero(M, sh - 1)
                 up    == guard /\ (rest \/ BBit(q, 0) = 1)
                 q1    == IF up THEN BAdd(q, <<1>>) ELSE q
             IN  IF BLen(q1) > SigBits
                 THEN [k |-> "num", s |-> s, m |-> BShr(q1, 1), e |-> e + sh + 1]
                 ELSE [k |-> "num", s |-> s, m |-> q1, e |-> e + sh]

\* ToNumber of a small integer
FromInt(n) ==
    IF n = 0 THEN Zero
    ELSE IF n < 0 THEN RoundToDouble(1, BFromInt(-n), 0, FALSE)
    ELSE RoundToDouble(0, BFromInt(n), 0, FALSE)

\* <<floor(x / 10^k), whether a remainder was dropped>>
RECURSIVE DivPow10(_, _, _)
DivPow10(x, k, sticky) ==
    IF k = 0 THEN <<x, sticky>>
    ELSE LET qr == BDivSmall(x, 10)
         IN  DivPow10(qr[1], k - 1, sticky \/ qr[2] # 0)

\* The number nearest to (-1)^s * N / 10^k (the value of a decimal literal
\* or of a decimal string with k fraction digits).
FromDecimal(s, N, k) ==
    IF N = <<>> THEN Zero
    ELSE LET t  == SigBits + 3 + 4 * k
             qs == DivPow10(BShl(N, t), k, FALSE)
         IN  RoundToDouble(s, qs[1], -t, qs[2])

FNeg(a) == IF isNaN(a) \/ IsZero(a) THEN a ELSE [a EXCEPT !.s = 1 - a.s]

\* a * b
FMul(a, b) ==
    IF isNaN(a) \/ isNaN(b) THEN NaN
    ELSE IF IsZero(a) \/ IsZero(b) THEN Zero
    ELSE RoundToDouble((a.s + b.s) % 2, BMul(a.m, b.m), a.e + b.e, FALSE)

\* a + b
FAdd(a, b) ==
    IF isNaN(a) \/ isNaN(b) THEN NaN
    ELSE IF IsZero(a) THEN b
    ELSE IF IsZero(b) THEN a
    ELSE LET lo == IF a.e < b.e THEN a.e ELSE b.e
             A  == BShl(a.m, a.e - lo)
             B  == BShl(b.m, b.e - lo)
             c  == BCmp(A, B)
         IN  IF a.s = b.s THEN RoundToDouble(a.s, BAdd(A, B), lo, FALSE)
             ELSE IF c = 0 THEN Zero
             ELSE IF c > 0 THEN RoundToDouble(a.s, BSub(A, B), lo, FALSE)
             ELSE RoundToDouble(b.s, BSub(B, A), lo, FALSE)

\* a - b
FSub(a, b) == FAdd(a, FNeg(b))

SignOf(a) == IF IsZero(a) THEN 0 ELSE IF a.s = 1 THEN -1 ELSE 1

MagCmp(a, b) ==
    IF a.e < b.e THEN -1 ELSE IF a.e > b.e THEN 1 ELSE BCmp(a.m, b.m)

\* -1, 0, 1 as a <, =, > b (neither is NaN)
FCmp(a, b) ==
    IF SignOf(a) # SignOf(b) THEN (IF SignOf(a) < SignOf(b) THEN -1 ELSE 1)
    ELSE IF SignOf(a) = 0 THEN 0
    ELSE IF SignOf(a) > 0 THEN MagCmp(a, b)
    ELSE MagCmp(b, a)

\* Math.max(a, b)
MathMax(a, b) ==
    IF isNaN(a) \/ isNaN(b) THEN NaN
    ELSE IF FCmp(a, b) < 0 THEN b ELSE a

\* floor and ceiling of m * 2^e for a natural m
FloorNat(m, e) == IF e >= 0 THEN BToInt(BShl(m, e)) ELSE BToInt(BShr(m, -e))

CeilNat(m, e) ==
    IF e >= 0 THEN BToInt(BShl(m, e))
    ELSE BToInt(BShr(m, -e)) + (IF BLowNonZero(m, -e) THEN 1 ELSE 0)

\* Math.floor(x) as an integer
MathFloor(x) ==
    IF IsZero(x) THEN 0
    ELSE IF x.s = 0 THEN FloorNat(x.m, x.e)
    ELSE -CeilNat(x.m, x.e)

\* Math.round(x) as an integer: floor(x + 1/2) computed exactly
MathRound(x) ==
    IF IsZero(x) THEN 0
    ELSE IF x.e >= 0 THEN (IF x.s = 0 THEN 1 ELSE -1) * BToInt(BShl(x.m, x.e))
    ELSE LET half == BShl(<<1>>, -x.e - 1)
         IN  IF x.s = 0 THEN FloorNat(BAdd(x.m, half), x.e)
             ELSE IF BCmp(x.m, half) <= 0 THEN 0
             ELSE -CeilNat(BSub(x.m, half), x.e)

(***************************************************************************)
(* Strings are sequences of one-character strings.  The characters that    *)
(* occur are the decimal digits, '.', '-', '+', ',', the currency sign,    *)
(* the space, and "x", which stands for any other character that cannot be *)
(* part of a numeric literal.                                              *)
(***************************************************************************)
Digits == {"0", "1", "2", "3", "4", "5", "6", "7", "8", "9"}

DigitVal(c) ==
    CASE c = "0" -> 0 [] c = "1" -> 1 [] c = "2" -> 2 [] c = "3" -> 3
      [] c = "4" -> 4 [] c = "5" -> 5 [] c = "6" -> 6 [] c = "7" -> 7
      [] c = "8" -> 8 [] c = "9" -> 9

WhiteSpace == {" "}

Drop(t, n) == SubSeq(t, n + 1, Len(t))

\* length of the longest prefix of t made of characters of S
RECURSIVE PrefixLen(_, _)
PrefixLen(t, S) ==
    IF t = <<>> \/ t[1] \notin S THEN 0 ELSE 1 + PrefixLen(Tail(t), S)

RECURSIVE SuffixLen(_, _)
SuffixLen(t, S) ==
    IF t = <<>> \/ t[Len(t)] \notin S THEN 0
    ELSE 1 + SuffixLen(SubSeq(t, 1, Len(t) - 1), S)

\* String.prototype.trim
trim(t) ==
    LET u == Drop(t, PrefixLen(t, WhiteSpace))
    IN  SubSeq(u, 1, Len(u) - SuffixLen(u, WhiteSpace))

\* priceText.replace(/[^0-9.-]+/g, "")
StripNonNumeric(t) == SelectSeq(t, LAMBDA c : c \in Digits \cup {".", "-"})

\* priceText.replace('£', ''): a string pattern replaces the first match only
RECURSIVE ReplaceFirstPound(_)
ReplaceFirstPound(t) ==
    IF t = <<>> THEN <<>>
    ELSE IF t[1] = "£" THEN Tail(t)
    ELSE <<t[1]>> \o ReplaceFirstPound(Tail(t))

RECURSIVE DigitsToBig(_)
DigitsToBig(ds) ==
    IF ds = <<>> THEN <<>>
    ELSE BAdd(BMulSmall(DigitsToBig(SubSeq(ds, 1, Len(ds) - 1)), 10),
              BFromInt(DigitVal(ds[Len(ds)])))

\* parseFloat: leading white space is skipped, then the longest prefix that
\* is a decimal literal (sign, digits, '.', digits) is converted; NaN when
\* there is none.  Whatever follows the literal is ignored.
parseFloat(t) ==
    LET u      == Drop(t, PrefixLen(t, WhiteSpace))
        signed == u # <<>> /\ u[1] \in {"-", "+"}
        sign   == IF signed /\ u[1] = "-" THEN 1 ELSE 0
        body   == IF signed THEN Tail(u) ELSE u
        nInt   == PrefixLen(body, Digits)
        rest   == Drop(body, nInt)
        nFrac  == IF rest # <<>> /\ rest[1] = "." THEN PrefixLen(Tail(rest), Digits) ELSE 0
        ds     == SubSeq(body, 1, nInt) \o SubSeq(rest, 2, nFrac + 1)
    IN  IF nInt = 0 /\ nFrac = 0 THEN NaN
        ELSE FromDecimal(sign, DigitsToBig(ds), nFrac)

(***************************************************************************)
(* The price extractors.  The outcome of the single fetch of an extractor  *)
(* is a record                                                             *)
(*   net   the fetch promise resolved (FALSE: it rejected, network error)  *)
(*   ok    response.ok, the HTTP status is a success status                *)
(*   body  response.text() resolved (FALSE: it rejected)                   *)
(*   box   the page has a '.product-box-container' element                 *)
(*   text  the text of the first element the price selector matches,       *)
(*         <<>> when it matches nothing                                    *)
(***************************************************************************)
Outcome(net, ok, body, box, text) ==
    [net |-> net, ok |-> ok, body |-> body, box |-> box, text |-> text]

\* the number an extractor makes of a price text
PriceOfText(v, priceText) ==
    LET price == IF v = "v2" THEN parseFloat(StripNonNumeric(priceText))
                 ELSE parseFloat(ReplaceFirstPound(priceText))
    IN  IF isNaN(price) THEN Zero ELSE price

\* getCeXPrice returns right after the fetch settled, without reading the body
CeXStopsAfterFetch(v, net, ok) == ~net \/ (v = "v2" /\ ~ok)

\* getCeXPrice from `await response.text()` on
CeXPagePrice(v, body, box, text) ==
    IF ~body THEN Zero
    ELSE IF v = "v2" /\ ~box THEN Zero
    ELSE IF text # <<>> THEN PriceOfText(v, text)
    ELSE Zero

getCeXPrice(v, out) ==
    IF CeXStopsAfterFetch(v, out.net, out.ok) THEN Zero
    ELSE CeXPagePrice(v, out.body, out.box, out.text)

\* getMusicMagpiePrice returns right after the fetch settled
MMStopsAfterFetch(v, net, ok) == ~net

\* getMusicMagpiePrice from `await response.text()` on
MMPagePrice(v, body, text) ==
    IF ~body THEN Zero
    ELSE IF trim(text) # <<>> THEN PriceOfText(v, trim(text))
    ELSE Zero

getMusicMagpiePrice(v, out) ==
    IF MMStopsAfterFetch(v, out.net, out.ok) THEN Zero
    ELSE MMPagePrice(v, out.body, out.text)

(***************************************************************************)
(* JSON values of the request body.                                        *)
(***************************************************************************)
JUndefined == [t |-> "undefined", s |-> <<>>, n |-> 0]

JNull == [t |-> "null", s |-> <<>>, n |-> 0]

JStr(s) == [t |-> "string", s |-> s, n |-> 0]

JNum(n) == [t |-> "number", s |-> <<>>, n |-> n]

\* ToBoolean
Truthy(j) ==
    CASE j.t = "string" -> j.s # <<>>
      [] j.t = "number" -> j.n # 0
      [] j.t = "object" -> TRUE
      [] OTHER -> FALSE

RECURSIVE DigitsToInt(_)
DigitsToInt(ds) ==
    IF ds = <<>> THEN 0
    ELSE 10 * DigitsToInt(SubSeq(ds, 1, Len(ds) - 1)) + DigitVal(ds[Len(ds)])

\* parseInt of an integer number or of a string (unsigned decimal prefix)
parseInt(j) ==
    IF j.t = "number" THEN FromInt(j.n)
    ELSE LET u == Drop(j.s, PrefixLen(j.s, WhiteSpace))
             n == PrefixLen(u, Digits)
         IN  IF j.t # "string" \/ n = 0 THEN NaN
             ELSE FromInt(DigitsToInt(SubSeq(u, 1, n)))

\* A condition record; t = "undefined" when the request has none.
Condition(sc, bc, ff, cam, bat, box, chg) ==
    [t |-> "object", screen_condition |-> sc, body_condition |-> bc,
     fully_functional |-> ff, camera_works |-> cam, battery_health |-> bat,
     original_box |-> box, charger_included |-> chg]

NoCondition ==
    [Condition(JUndefined, JUndefined, FALSE, FALSE, FALSE, FALSE, FALSE)
        EXCEPT !.t = "undefined"]

\* the fourth required field of the request
Fourth(v, body) == IF v = "v2" THEN body.grade ELSE body.condition

\* the validation test without its fourth operand
ValidWithoutFourth(v, body) ==
    /\ Truthy(body.brand)
    /\ Truthy(body.model)
    /\ Truthy(body.storage)

\* the negation of the handler's validation test
Valid(v, body) ==
    /\ Truthy(body.brand)
    /\ Truthy(body.model)
    /\ Truthy(body.storage)
    /\ Truthy(Fourth(v, body))

(***************************************************************************)
(* The offer calculation.                                                  *)
(***************************************************************************)
N015 == FromDecimal(0, BFromInt(15), 2)

N01 == FromDecimal(0, BFromInt(1), 1)

N04 == FromDecimal(0, BFromInt(4), 1)

N08 == FromDecimal(0, BFromInt(8), 1)

N09 == FromDecimal(0, BFromInt(9), 1)

\* basePrice -= (4 - parseInt(condition.screen_condition)) * (basePrice * 0.15)
ScreenStep(c, basePrice) ==
    FSub(basePrice, FMul(FSub(FromInt(4), parseInt(c.screen_condition)),
                         FMul(basePrice, N015)))

\* the body deduction left out
BodyStepOmitted(c, basePrice) == basePrice

\* basePrice -= (4 - parseInt(condition.body_condition)) * (basePrice * 0.1)
BodyStep(c, basePrice) ==
    FSub(basePrice, FMul(FSub(FromInt(4), parseInt(c.body_condition)),
                         FMul(basePrice, N01)))

FunctionalStep(c, basePrice) ==
    IF ~c.fully_functional THEN FMul(basePrice, N04) ELSE basePrice

CameraStep(c, basePrice) ==
    IF ~c.camera_works THEN FMul(basePrice, N08) ELSE basePrice

BatteryStep(c, basePrice) ==
    IF ~c.battery_health THEN FMul(basePrice, N09) ELSE basePrice

BoxStep(c, basePrice) ==
    IF c.original_box THEN FAdd(basePrice, FromInt(10)) ELSE basePrice

ChargerStep(c, basePrice) ==
    IF c.charger_included THEN FAdd(basePrice, FromInt(5)) ELSE basePrice

\* statement i of the condition logic
Step(i, c, basePrice) ==
    CASE i = 1 -> ScreenStep(c, basePrice)
      [] i = 2 -> BodyStep(c, basePrice)
      [] i = 3 -> FunctionalStep(c, basePrice)
      [] i = 4 -> CameraStep(c, basePrice)
      [] i = 5 -> BatteryStep(c, basePrice)
      [] i = 6 -> BoxStep(c, basePrice)
      [] i = 7 -> ChargerStep(c, basePrice)

\* the statements `order`, executed from left to right
RECURSIVE RunSteps(_, _, _)
RunSteps(order, c, basePrice) ==
    IF order = <<>> THEN basePrice
    ELSE RunSteps(Tail(order), c, Step(order[1], c, basePrice))

\* the box and charger additions executed before the deductions
ProgramOrderAdditionsFirst == <<6, 7, 1, 2, 3, 4, 5>>

\* the order in which the program executes the statements
ProgramOrder == <<1, 2, 3, 4, 5, 6, 7>>

\* basePrice of the handler: v1 applies the condition logic, v2 does not
basePrice(v, body, highestCompetitorPrice) ==
    IF v = "v1" THEN RunSteps(ProgramOrder, body.condition, highestCompetitorPrice)
    ELSE highestCompetitorPrice

\* Math.floor(Math.random() * 25) + 5, for the value r of Math.random()
Bonus(r) == MathFloor(FMul(r, FromInt(25))) + 5

finalOffer(base, r) == MathRound(base) + Bonus(r)

NoPriceMessage == "Sorry, we couldn't find a price for this model right now."

Response(status, keys, ourPrice, cexPrice, musicMagpiePrice, text) ==
    [status |-> status, keys |-> keys, ourPrice |-> ourPrice, cexPrice |-> cexPrice,
     musicMagpiePrice |-> musicMagpiePrice, text |-> text]

\* what the handler sends once both prices are known
Quote(v, body, cexPrice, musicMagpiePrice, r) ==
    LET highestCompetitorPrice == MathMax(cexPrice, musicMagpiePrice)
    IN  IF FCmp(highestCompetitorPrice, Zero) <= 0
        THEN Response(200, {"ourPrice", "cexPrice", "musicMagpiePrice", "message"},
                      0, cexPrice, musicMagpiePrice, NoPriceMessage)
        ELSE Response(200, {"ourPrice", "cexPrice", "musicMagpiePrice"},
                      finalOffer(basePrice(v, body, highestCompetitorPrice), r),
                      cexPrice, musicMagpiePrice, "")

\* what the handler sends when the validation fails
BadRequest(v) ==
    Response(400, {"error"}, 0, Zero, Zero,
             IF v = "v2" THEN "Please provide all device details, including grade."
             ELSE "Please provide all device details.")

(***************************************************************************)
(* The search queries.                                                     *)
(***************************************************************************)
RECURSIVE ReplaceSpaces(_, _)
ReplaceSpaces(t, by) ==
    IF t = <<>> THEN <<>>
    ELSE (IF t[1] = " " THEN by ELSE <<t[1]>>) \o ReplaceSpaces(Tail(t), by)

Unlocked == <<"U", "n", "l", "o", "c", "k", "e", "d">>

\* searchQuery of getCeXPrice
CeXQuery(v, body) ==
    IF v = "v2"
    THEN ReplaceSpaces(body.model.s \o <<" ">> \o body.storage.s \o <<" ">> \o Unlocked
                       \o <<" ">> \o body.grade.s, <<"+">>)
    ELSE ReplaceSpaces(body.model.s \o <<" ">> \o body.storage.s, <<"+">>)

\* searchQuery of getMusicMagpiePrice
MMQuery(v, body) ==
    ReplaceSpaces(body.brand.s \o <<" ">> \o body.model.s \o <<" ">> \o body.storage.s,
                  <<"%", "2", "0">>)

(***************************************************************************)
(* The inputs.                                                             *)
(***************************************************************************)
\* values of Math.random(): the multiples of 2^-DrawBits below 1 and the
\* largest number below 1
DrawBits == 1

Scaled(x, n) == IF IsZero(x) THEN x ELSE [x EXCEPT !.e = @ + n]

MaxRandom == RoundToDouble(0, BSub(BShl(<<1>>, SigBits), <<1>>), -SigBits, FALSE)

DrawsOf(bits) == {Scaled(FromInt(i), -bits) : i \in 0..(2^bits - 1)} \cup {MaxRandom}

Draws == DrawsOf(DrawBits)

\* price texts of the pages the handler specification fetches
PageTexts ==
    { <<>>,
      <<"£", "1", "0", "0", ".", "0", "0">>,
      <<"£", "8", "0">>,
      <<"£", "1", ",", "2", "3", "4", ".", "5", "6">>,
      <<"-", "5">>,
      <<"£", "0", ".", "0", "0">>,
      <<"x", "x">> }

FieldValues(word) == {JUndefined, JNull, JStr(<<>>), JStr(word)}

Grades == {JUndefined, JStr(<<>>), JStr(<<"A">>), JStr(<<"B">>)}

\* condition records of the requests the handler specification serves
HandlerConditions ==
    { NoCondition,
      Condition(JNum(4), JNum(4), TRUE, TRUE, TRUE, FALSE, FALSE),
      Condition(JNum(4), JNum(4), FALSE, TRUE, TRUE, FALSE, FALSE),
      Condition(JStr(<<"3">>), JNum(2), TRUE, FALSE, FALSE, TRUE, TRUE),
      Condition(JNum(1), JStr(<<"1">>), FALSE, FALSE, TRUE, TRUE, FALSE) }

Body(brand, model, storage, grade, condition) ==
    [brand |-> brand, model |-> model, storage |-> storage, grade |-> grade,
     condition |-> condition]

\* request bodies of version v: the field of the other version is absent
Bodies(v) ==
    { Body(b, m, s, g, c) :
        b \in FieldValues(<<"A", "p", "p", "l", "e">>),
        m \in FieldValues(<<"i", "P", "h", "o", "n", "e", " ", "1", "4">>),
        s \in FieldValues(<<"1", "2", "8", "G", "B">>),
        g \in IF v = "v2" THEN Grades ELSE {JUndefined},
        c \in IF v = "v1" THEN HandlerConditions ELSE {NoCondition} }

(***************************************************************************)
(* The request handler: one request, from its arrival to its response.     *)
(*   version   the server that handles the request                         *)
(*   body      req.body                                                    *)
(*   pc        "start": not yet handled; "await": suspended in             *)
(*             `await Promise.all`; "done": the handler returned           *)
(*   cex, mm   the two extractor calls: st is "idle" (not called), "fetch" *)
(*             (suspended in `await fetch`), "text" (suspended in          *)
(*             `await response.text()`) or "done" (returned `price`); out  *)
(*             is what its fetch has produced so far                       *)
(*   fetchLog  the outbound fetches issued, in order                       *)
(*   resps     the responses sent, in order                                *)
(*   rnd       the value Math.random() returned                            *)
(*   input, output  argument and result of the function under test in the  *)
(*             specifications of the pure functions                        *)
(***************************************************************************)
VARIABLES version, body, pc, cex, mm, fetchLog, resps, rnd, input, output

vars == <<version, body, pc, cex, mm, fetchLog, resps, rnd, input, output>>

handlerVars == <<version, body, pc, cex, mm, fetchLog, resps, rnd>>

NoOutcome == Outcome(FALSE, FALSE, FALSE, FALSE, <<>>)

Lookup(st, out, price) == [st |-> st, out |-> out, price |-> price]

Idle == Lookup("idle", NoOutcome, Zero)

Nothing == [fn |-> "none"]

Init ==
    /\ version \in {"v1", "v2"}
    /\ body \in Bodies(version)
    /\ pc = "start"
    /\ cex = Idle
    /\ mm = Idle
    /\ fetchLog = <<>>
    /\ resps = <<>>
    /\ rnd = Zero
    /\ input = Nothing
    /\ output = Nothing

\* The handler up to its first suspension: the validation, and the two
\* extractor calls of Promise.all([...]), each of which runs up to its
\* `await fetch(url)`.
HandleRequest ==
    /\ pc = "start"
    /\ IF ~Valid(version, body)
       THEN /\ resps' = Append(resps, BadRequest(version))
            /\ pc' = "done"
            /\ UNCHANGED <<cex, mm, fetchLog>>
       ELSE /\ cex' = Lookup("fetch", NoOutcome, Zero)
            /\ mm' = Lookup("fetch", NoOutcome, Zero)
            /\ fetchLog' = fetchLog \o <<[site |-> "cex", query |-> CeXQuery(version, body)],
                                         [site |-> "mm", query |-> MMQuery(version, body)]>>
            /\ pc' = "await"
            /\ UNCHANGED resps
    /\ UNCHANGED <<version, body, rnd, input, output>>

\* The fetch of getCeXPrice settles.
CeXFetchSettles ==
    /\ cex.st = "fetch"
    /\ \E net \in BOOLEAN, ok \in BOOLEAN :
        /\ ~net => ~ok
        /\ LET out == [cex.out EXCEPT !.net = net, !.ok = ok]
           IN  cex' = IF CeXStopsAfterFetch(version, net, ok)
                      THEN Lookup("done", out, Zero)
                      ELSE Lookup("text", out, Zero)
    /\ UNCHANGED <<version, body, pc, mm, fetchLog, resps, rnd, input, output>>

\* response.text() of getCeXPrice settles.
CeXTextSettles ==
    /\ cex.st = "text"
    /\ \E bd \in BOOLEAN, box \in BOOLEAN, text \in PageTexts :
        /\ ~bd => ~box
        /\ box => version = "v2"
        /\ (~bd \/ (version = "v2" /\ ~box)) => text = <<>>
        /\ LET out == [cex.out EXCEPT !.body = bd, !.box = box, !.text = text]
           IN  cex' = Lookup("done", out, CeXPagePrice(version, bd, box, text))
    /\ UNCHANGED <<version, body, pc, mm, fetchLog, resps, rnd, input, output>>

\* The fetch of getMusicMagpiePrice settles.
MMFetchSettles ==
    /\ mm.st = "fetch"
    /\ \E net \in BOOLEAN, ok \in BOOLEAN :
        /\ ~net => ~ok
        /\ LET out == [mm.out EXCEPT !.net = net, !.ok = ok]
           IN  mm' = IF MMStopsAfterFetch(version, net, ok)
                     THEN Lookup("done", out, Zero)
                     ELSE Lookup("text", out, Zero)
    /\ UNCHANGED <<version, body, pc, cex, fetchLog, resps, rnd, input, output>>

\* response.text() of getMusicMagpiePrice settles.
MMTextSettles ==
    /\ mm.st = "text"
    /\ \E bd \in BOOLEAN, text \in PageTexts :
        /\ ~bd => text = <<>>
        /\ LET out == [mm.out EXCEPT !.body = bd, !.text = text]
           IN  mm' = Lookup("done", out, MMPagePrice(version, bd, text))
    /\ UNCHANGED <<version, body, pc, cex, fetchLog, resps, rnd, input, output>>

\* Promise.all resolves once both extractors have returned; the handler
\* resumes, computes the quote and sends it.  Neither extractor can reject
\* (each body is one try/catch that returns 0), and nothing between the
\* await and res.json throws for a request of the documented shape, so the
\* catch branch of the handler (the 500 response) has no step here.
SendQuote ==
    /\ pc = "await"
    /\ cex.st = "done"
    /\ mm.st = "done"
    /\ \E r \in Draws :
        /\ rnd' = r
        /\ resps' = Append(resps, Quote(version, body, cex.price, mm.price, r))
    /\ pc' = "done"
    /\ UNCHANGED <<version, body, cex, mm, fetchLog, input, output>>

Next ==
    \/ HandleRequest
    \/ CeXFetchSettles
    \/ CeXTextSettles
    \/ MMFetchSettles
    \/ MMTextSettles
    \/ SendQuote

Spec == Init /\ [][Next]_vars

(***************************************************************************)
(* The extractors as functions of the outcome of their fetch.              *)
(***************************************************************************)
MaxLen == 3

Alphabet == {"0", "1", "5", ".", "-", ",", "£", " "}

RECURSIVE TextsUpTo(_)
TextsUpTo(n) ==
    IF n = 0 THEN {<<>>}
    ELSE LET shorter == TextsUpTo(n - 1)
         IN  shorter \cup {Append(t, c) : t \in shorter, c \in Alphabet}

PoundsText == <<"£", "1", ",", "2", "3", "4", ".", "5", "6">>

SampleTexts ==
    { PoundsText,
      <<"£", "1", "2", "3", ".", "0", "0">>,
      <<"x", "x", "x">>,
      <<"+", "5">> }

Texts == TextsUpTo(MaxLen) \cup SampleTexts

\* the outcomes of a fetch; what was not produced keeps its default
Outcomes ==
    {NoOutcome}
    \cup {Outcome(TRUE, ok, FALSE, FALSE, <<>>) : ok \in BOOLEAN}
    \cup {Outcome(TRUE, ok, TRUE, box, text) : ok \in BOOLEAN, box \in BOOLEAN, text \in Texts}

InitExtract ==
    /\ version \in {"v1", "v2"}
    /\ body = Body(JUndefined, JUndefined, JUndefined, JUndefined, NoCondition)
    /\ pc = "start"
    /\ cex = Idle
    /\ mm = Idle
    /\ fetchLog = <<>>
    /\ resps = <<>>
    /\ rnd = Zero
    /\ input \in {[fn |-> f, out |-> o] : f \in {"getCeXPrice", "getMusicMagpiePrice"},
                                          o \in Outcomes}
    /\ output = Nothing

ExtractCeX ==
    /\ input.fn = "getCeXPrice"
    /\ output = Nothing
    /\ output' = [fn |-> input.fn, price |-> getCeXPrice(version, input.out)]
    /\ UNCHANGED <<handlerVars, input>>

ExtractMM ==
    /\ input.fn = "getMusicMagpiePrice"
    /\ output = Nothing
    /\ output' = [fn |-> input.fn, price |-> getMusicMagpiePrice(version, input.out)]
    /\ UNCHANGED <<handlerVars, input>>

NextExtract == ExtractCeX \/ ExtractMM

SpecExtract == InitExtract /\ [][NextExtract]_vars

(***************************************************************************)
(* The offer calculation as a function of the two prices, the condition    *)
(* and the random draw.                                                    *)
(***************************************************************************)
Booleans3 == BOOLEAN \X BOOLEAN \X BOOLEAN

\* every condition record with grades 1..4
AllConditions ==
    { Condition(JNum(sc), JNum(bc), f[1], f[2], f[3], box, chg) :
        sc \in 1..4, bc \in 1..4, f \in Booleans3, box \in BOOLEAN, chg \in BOOLEAN }

CalcCeXPrices ==
    { Zero, FromInt(100), FromDecimal(0, BFromInt(123456), 2),
      FromDecimal(0, BFromInt(4750), 2), FromDecimal(0, BFromInt(1), 2),
      FromDecimal(1, BFromInt(5), 0) }

CalcMMPrices == {Zero, FromInt(80)}

ValidBody(v, g, c) ==
    Body(JStr(<<"A">>), JStr(<<"M">>), JStr(<<"6", "4">>),
         IF v = "v2" THEN g ELSE JUndefined, IF v = "v1" THEN c ELSE NoCondition)

InitCalc ==
    /\ version \in {"v1", "v2"}
    /\ body \in {ValidBody(version, g, c) :
                    g \in {JStr(<<"A">>), JStr(<<"B">>), JStr(<<"C">>)},
                    c \in AllConditions}
    /\ pc = "start"
    /\ cex = Idle
    /\ mm = Idle
    /\ fetchLog = <<>>
    /\ resps = <<>>
    /\ rnd = Zero
    /\ input \in {[fn |-> "Quote", cexPrice |-> a, musicMagpiePrice |-> b] :
                    a \in CalcCeXPrices, b \in CalcMMPrices}
    /\ output = Nothing

Calc ==
    /\ input.fn = "Quote"
    /\ output = Nothing
    /\ \E r \in Draws :
        /\ rnd' = r
        /\ output' = [fn |-> "Quote",
                      resp |-> Quote(version, body, input.cexPrice, input.musicMagpiePrice, r)]
    /\ UNCHANGED <<version, body, pc, cex, mm, fetchLog, resps, input>>

NextCalc == Calc

SpecCalc == InitCalc /\ [][NextCalc]_vars

(***************************************************************************)
(* The multiplicative statements of the condition logic, executed in any   *)
(* order.                                                                  *)
(***************************************************************************)
Orders == {p \in [1..5 -> 1..5] : \A i, j \in 1..5 : p[i] = p[j] => i = j}

ListedOrder == <<1, 2, 3, 4, 5>>

OrderBaselines == {FromInt(1), FromInt(100)}

OrderConditions ==
    { Condition(JNum(sc), JNum(bc), f[1], f[2], f[3], FALSE, FALSE) :
        sc \in 1..4, bc \in 1..4, f \in Booleans3 }

InitOrder ==
    /\ version = "v1"
    /\ body \in {ValidBody("v1", JUndefined, c) : c \in OrderConditions}
    /\ pc = "start"
    /\ cex = Idle
    /\ mm = Idle
    /\ fetchLog = <<>>
    /\ resps = <<>>
    /\ rnd = Zero
    /\ input \in {[fn |-> "RunSteps", baseline |-> b] : b \in OrderBaselines}
    /\ output = Nothing

Permute ==
    /\ input.fn = "RunSteps"
    /\ output = Nothing
    /\ \E order \in Orders :
        output' = [fn |-> "RunSteps", order |-> order,
                   price |-> RunSteps(order, body.condition, input.baseline)]
    /\ UNCHANGED <<handlerVars, input>>

NextOrder == Permute

SpecOrder == InitOrder /\ [][NextOrder]_vars

(***************************************************************************)
(* The random bonus as a function of the value of Math.random().           *)
(***************************************************************************)
FineDrawBits == 7

FineDraws == DrawsOf(FineDrawBits)

InitBonus ==
    /\ version \in {"v1", "v2"}
    /\ body = Body(JUndefined, JUndefined, JUndefined, JUndefined, NoCondition)
    /\ pc = "start"
    /\ cex = Idle
    /\ mm = Idle
    /\ fetchLog = <<>>
    /\ resps = <<>>
    /\ rnd \in FineDraws
    /\ input = [fn |-> "Bonus"]
    /\ output = Nothing

DrawBonus ==
    /\ input.fn = "Bonus"
    /\ output = Nothing
    /\ output' = [fn |-> "Bonus", bonus |-> Bonus(rnd)]
    /\ UNCHANGED <<handlerVars, input>>

NextBonus == DrawBonus

SpecBonus == InitBonus /\ [][NextBonus]_vars

(***************************************************************************)
(* Properties of the request handler (specification Spec).                 *)
(***************************************************************************)
Sent == resps[1]

Quoted == pc = "done" /\ Len(fetchLog) = 2

RequiredFieldMissing ==
    \/ ~Truthy(body.brand)
    \/ ~Truthy(body.model)
    \/ ~Truthy(body.storage)
    \/ (version = "v1" /\ ~Truthy(body.condition))
    \/ (version = "v2" /\ ~Truthy(body.grade))

\* C1: a request in which a required field (brand, model, storage, and
\* condition in v1 / grade in v2) is absent or falsy is answered with HTTP 400
\* and an error body, and no extractor is called and no fetch is issued at
\* any point of the request.
C1_InvalidRequestRejectedWithoutFetch ==
    RequiredFieldMissing =>
        /\ fetchLog = <<>>
        /\ cex = Idle
        /\ mm = Idle
        /\ pc # "await"
        /\ pc = "done" =>
            /\ Len(resps) = 1
            /\ Sent.status = 400
            /\ Sent.keys = {"error"}
            /\ Sent.text # ""

\* C1 witness: a request that lacks only its fourth field has been rejected.
C1_Witness ==
    /\ Truthy(body.brand) /\ Truthy(body.model) /\ Truthy(body.storage)
    /\ RequiredFieldMissing
    /\ pc = "done"
    /\ Len(resps) = 1
    /\ Sent.status = 400
    /\ fetchLog = <<>>

\* The fetch of a lookup failed: network error, bad status, or the expected
\* markup is missing.
LookupFailed(l, isCeX) ==
    /\ l.st = "done"
    /\ \/ ~l.out.net
       \/ ~l.out.ok
       \/ ~l.out.body
       \/ l.out.text = <<>>
       \/ (isCeX /\ version = "v2" /\ ~l.out.box)

\* Both lookups are started before the handler waits, the handler sends at
\* most one response, and none before both lookups have completed.
BothLookupsAwaited ==
    /\ pc = "await" => Len(fetchLog) = 2 /\ cex.st # "idle" /\ mm.st # "idle"
    /\ Len(resps) <= 1
    /\ pc = "done" => Len(resps) = 1
    /\ (resps # <<>> /\ Len(fetchLog) > 0) => cex.st = "done" /\ mm.st = "done"
    /\ Quoted => Sent.cexPrice = cex.price /\ Sent.musicMagpiePrice = mm.price

\* C2: both lookups are started before either is waited for; in every
\* interleaving exactly one response is sent, and only after both lookups
\* have completed; and if one lookup fails (network error, bad status,
\* missing markup) the other one's price is the one in the response that the
\* offer is computed from.
C2_BothAwaitedAndSurvivorUsed ==
    /\ BothLookupsAwaited
    /\ (Quoted /\ LookupFailed(cex, TRUE)) =>
            Sent.ourPrice = Quote(version, body, Zero, mm.price, rnd).ourPrice
    /\ (Quoted /\ LookupFailed(mm, FALSE)) =>
            Sent.ourPrice = Quote(version, body, cex.price, Zero, rnd).ourPrice

NoOfferResponse(r) == r.ourPrice = 0 /\ "message" \in r.keys /\ r.text # ""

\* C3: the no-offer response (ourPrice = 0 with a non-empty message) is sent
\* if and only if both extractors returned 0, and then cexPrice and
\* musicMagpiePrice are both 0; for every other pair of results an offer
\* without a message is sent, computed from the maximum of the two prices.
C3_NoOfferIffBothZero ==
    Quoted =>
        /\ NoOfferResponse(Sent) <=> (cex.price = Zero /\ mm.price = Zero)
        /\ NoOfferResponse(Sent) => (Sent.cexPrice = Zero /\ Sent.musicMagpiePrice = Zero)
        /\ ~(cex.price = Zero /\ mm.price = Zero) =>
            /\ "message" \notin Sent.keys
            /\ Sent.ourPrice
                 = finalOffer(basePrice(version, body, MathMax(cex.price, mm.price)), rnd)

\* C4: in v2, for every pair of extractor results that is not both zero and
\* every grade, the response echoes the two scraped prices and ourPrice is
\* round(max(cexPrice, musicMagpiePrice)) + bonus without any condition
\* adjustment (a baseline of 100 gives 105..130); the grade only appears in
\* the Source A search query.
C4_GradeOfferIsBaselinePlusBonus ==
    (version = "v2" /\ Quoted /\ ~(cex.price = Zero /\ mm.price = Zero)) =>
        /\ Sent.cexPrice = cex.price
        /\ Sent.musicMagpiePrice = mm.price
        /\ Sent.ourPrice = MathRound(MathMax(cex.price, mm.price)) + Bonus(rnd)
        /\ MathMax(cex.price, mm.price) = FromInt(100) => Sent.ourPrice \in 105..130
        /\ fetchLog[2].query = MMQuery("v1", body)

(***************************************************************************)
(* Properties of the random bonus (specification SpecBonus).               *)
(***************************************************************************)
BonusValues == {Bonus(r) : r \in FineDraws}

\* C5: the bonus is an integer of 5..30 for every draw, and every integer of
\* 5..30, the upper bound 30 included, is the bonus of some draw.
C5_BonusCoversFiveToThirty ==
    output.fn = "Bonus" =>
        /\ output.bonus \in 5..30
        /\ \A b \in 5..30 : b \in BonusValues

(***************************************************************************)
(* Properties of the extractors (specification SpecExtract).               *)
(***************************************************************************)
Extracted == output.fn # "none"

\* the fetch ended in one of the four failures of an extractor
FetchFailure(fn, out) ==
    \/ ~out.net
    \/ ~out.ok
    \/ ~out.body
    \/ out.text = <<>>
    \/ (fn = "getCeXPrice" /\ ~out.box)
    \/ isNaN(parseFloat(StripNonNumeric(out.text)))

\* C6: each v2 extractor returns 0 for every failing outcome of its fetch:
\* network error, non-success status whatever the body, expected markup
\* absent, unparseable price text.
C6_FailuresYieldZero ==
    (version = "v2" /\ Extracted /\ FetchFailure(input.fn, input.out)) =>
        output.price = Zero

\* the page was fetched and read, and its price element has text t
PageWithText(out, t) == out.net /\ out.ok /\ out.body /\ out.box /\ out.text = t

\* C9: for every price text found on the page, the value an extractor
\* returns is 0 or strictly positive, never negative.
C9_PricesNonNegative ==
    (Extracted /\ PageWithText(input.out, input.out.text)) =>
        FCmp(output.price, Zero) >= 0

HasDigit(t) == \E i \in 1..Len(t) : t[i] \in Digits

\* C10: in every extractor of both versions the price text "£1,234.56"
\* yields 1234.56, and a price text without a digit yields 0.
C10_FullAmountExtracted ==
    Extracted =>
        /\ PageWithText(input.out, PoundsText) =>
                output.price = FromDecimal(0, BFromInt(123456), 2)
        /\ (PageWithText(input.out, input.out.text) /\ ~HasDigit(input.out.text)) =>
                output.price = Zero

(***************************************************************************)
(* Properties of the offer calculation (specification SpecCalc).           *)
(***************************************************************************)
Dec(n, k) == FromDecimal(0, BFromInt(n), k)

\* p less `rate` of p for each grade below 4
Deduct(p, grade, rate) == FSub(p, FMul(FromInt(4 - grade), FMul(p, rate)))

\* steps 1 to 7 of the condition adjustment, applied to the baseline b
ListedAdjustment(b, c) ==
    LET p1 == Deduct(b, c.screen_condition.n, Dec(15, 2))
        p2 == Deduct(p1, c.body_condition.n, Dec(10, 2))
        p3 == IF c.fully_functional THEN p2 ELSE FMul(p2, Dec(4, 1))
        p4 == IF c.camera_works THEN p3 ELSE FMul(p3, Dec(8, 1))
        p5 == IF c.battery_health THEN p4 ELSE FMul(p4, Dec(9, 1))
        p6 == IF c.original_box THEN FAdd(p5, FromInt(10)) ELSE p5
    IN  IF c.charger_included THEN FAdd(p6, FromInt(5)) ELSE p6

Baseline == MathMax(input.cexPrice, input.musicMagpiePrice)

TopGrades(c) == c.screen_condition = JNum(4) /\ c.body_condition = JNum(4)

\* C7: in v1, for every positive baseline b, grades in 1..4 and booleans,
\* ourPrice - bonus = round(p), p being steps 1 to 7 applied in order to b;
\* with b = 100, both grades 4 and only fully_functional false the base
\* price is 40 before the box and charger additions, and with every flag
\* good and neither box nor charger ourPrice is in 105..130.
C7_ConditionAdjustment ==
    (version = "v1" /\ output.fn = "Quote" /\ FCmp(Baseline, Zero) > 0) =>
        LET c    == body.condition
            base == output.resp.ourPrice - Bonus(rnd)
        IN  /\ base = MathRound(ListedAdjustment(Baseline, c))
            /\ (Baseline = FromInt(100) /\ TopGrades(c) /\ ~c.fully_functional
                    /\ c.camera_works /\ c.battery_health) =>
                 base = 40 + (IF c.original_box THEN 10 ELSE 0)
                           + (IF c.charger_included THEN 5 ELSE 0)
            /\ (Baseline = FromInt(100) /\ TopGrades(c) /\ c.fully_functional
                    /\ c.camera_works /\ c.battery_health
                    /\ ~c.original_box /\ ~c.charger_included) =>
                 output.resp.ourPrice \in 105..130

\* C7 witness: a quote for baseline 100, top grades, a device that is not
\* fully functional and comes with its box: 100 * 0.4 + 10.
C7_Witness ==
    /\ version = "v1"
    /\ output.fn = "Quote"
    /\ Baseline = FromInt(100)
    /\ body.condition = Condition(JNum(4), JNum(4), FALSE, TRUE, TRUE, TRUE, FALSE)
    /\ output.resp.ourPrice - Bonus(rnd) = 50

(***************************************************************************)
(* Properties of the order of the steps (specification SpecOrder).         *)
(***************************************************************************)
WorstGrades == Condition(JNum(1), JNum(1), TRUE, TRUE, TRUE, FALSE, FALSE)

BodyBeforeScreen == <<2, 1, 3, 4, 5>>

SwappedCase ==
    /\ output.fn = "RunSteps"
    /\ input.baseline = FromInt(1)
    /\ body.condition = WorstGrades
    /\ output.order = BodyBeforeScreen

\* C8: the order of steps 1 to 5 matters: for the baseline 1 and screen and
\* body grades 1, steps 1 to 5 in the listed order give 0.385, and with
\* steps 1 and 2 exchanged they give a different base price.
C8_OrderMatters ==
    SwappedCase =>
        /\ RunSteps(ListedOrder, body.condition, input.baseline) = Dec(385, 3)
        /\ output.price # RunSteps(ListedOrder, body.condition, input.baseline)

\* C8 witness: the exchanged order has been run on that input and its
\* result is the number next below 0.385.
C8_Witness ==
    /\ SwappedCase
    /\ FCmp(output.price, Dec(385, 3)) < 0
    /\ FCmp(output.price, Dec(3849, 4)) > 0

=============================================================================
